---- MODULE Spec2Model ----
(***************************************************************************)
(* Model of og_marl/vault_utils/analyse_vault.py: calculate_returns (the   *)
(* segmented reset-scan over rewards and terminals), get_saco (the         *)
(* state-action coverage ratio) and analyse_vault (the loop over UIDs).    *)
(*                                                                         *)
(* Arrays are sequences nested in axis order, 1-based: an array of shape   *)
(* (1, T, N) is <<rows>> with rows a sequence of T sequences of N values.  *)
(* A one- or zero-dimensional array whose rank matters is a record         *)
(* [ndim, data].  Rewards are integers: float32 rounding is not modelled.  *)
(***************************************************************************)
EXTENDS Integers, Sequences, FiniteSets, TLC

\* Bounds of the model.
MaxT == 3
NumAgents == 2

\* Values the inputs are drawn from.
RewardVals == {1, 2}
OtherAgentOffsets == {0, 3}
AgentActions == {<<0>>, <<1>>}
StateVectors == {<<0>>, <<1>>}
UIDs == {"Good", "Medium", "Poor"}
None == "None"

VARIABLES
    prog,                \* which entry point this run executes
    experience,          \* calculate_returns: the argument, arrays of shape (1, T, N)
    pc,                  \* calculate_returns: position in the function
    rewards,             \* calculate_returns: line 49
    terminals,           \* calculate_returns: line 50
    t,                   \* scan: number of timesteps processed
    carry,               \* scan: the carry
    cumulative_rewards,  \* scan: the stacked outputs
    episode_returns,     \* calculate_returns: the returned array
    exception,           \* calculate_returns: the exception raised, if any
    offline_data,        \* get_saco: all_data.experience
    saco_pc,             \* get_saco: position
    saco,                \* get_saco: the returned ratio <<numerator, denominator>>
    saco_exception,      \* get_saco: the exception raised, if any
    vault_uids_arg,      \* analyse_vault: the vault_uids argument
    available_uids,      \* analyse_vault: what get_available_uids returns
    vault_store,         \* analyse_vault: uid -> experience read from the vault
    vault_uids,          \* analyse_vault: the local vault_uids after line 122
    uid_index,           \* analyse_vault: number of loop iterations done
    all_uid_returns,     \* analyse_vault: the dict, as <<uid, returns>> pairs in insertion order
    vault_pc             \* analyse_vault: position

returns_vars == <<experience, pc, rewards, terminals, t, carry, cumulative_rewards,
                  episode_returns, exception>>
saco_vars == <<offline_data, saco_pc, saco, saco_exception>>
vault_vars == <<vault_uids_arg, available_uids, vault_store, vault_uids, uid_index,
                all_uid_returns, vault_pc>>
vars == <<prog, returns_vars, saco_vars, vault_vars>>

----------------------------------------------------------------------------
\* Generic helpers.

RECURSIVE SelectIdx(_, _)
\* The indices of mask from i on, in increasing order, where mask is true.
SelectIdx(mask, i) ==
    IF i > Len(mask) THEN <<>>
    ELSE (IF mask[i] THEN <<i>> ELSE <<>>) \o SelectIdx(mask, i + 1)

Array1(seq) == [ndim |-> 1, data |-> seq]
Array0(x) == [ndim |-> 0, data |-> <<x>>]

----------------------------------------------------------------------------
\* calculate_returns

\* x[0, :, 0, ...] on the rewards: all the time data of the first agent.
experience_one_agent(x) == [i \in 1..Len(x[1]) |-> x[1][i][1]]

\* Mutation of all_axis_last: 1 where some agent's flag is non-zero.
all_axis_last_Any(x) ==
    [i \in 1..Len(x[1]) |-> IF \E a \in 1..Len(x[1][i]) : x[1][i][a] # 0 THEN 1 ELSE 0]

\* x[0].all(axis=-1), cast to float32: 1 where every agent's flag is non-zero.
all_axis_last(x) ==
    [i \in 1..Len(x[1]) |-> IF \A a \in 1..Len(x[1][i]) : x[1][i][a] # 0 THEN 1 ELSE 0]

\* .squeeze() of a one-dimensional array: a single-element axis is removed.
squeeze(seq) == IF Len(seq) = 1 THEN Array0(seq[1]) ELSE Array1(seq)

\* jnp.pad(terminals, ((1, 0)))[:-1]: the flags moved one timestep rightwards.
shift_terminals(term) == SubSeq(<<0>> \o term, 1, Len(term))

\* Mutation of scan_fn: the reset drops the current reward.
scan_fn_ResetToZero(c, terminal, reward) == IF terminal # 0 THEN 0 ELSE c + reward

\* scan_fn: the new carry (which is also the output of the step).
scan_fn(c, terminal, reward) ==
    LET new_carry == c + reward
    IN  IF terminal # 0 THEN reward ELSE new_carry

RECURSIVE lax_scan(_, _, _, _)
\* jax.lax.scan(scan_fn, init, (xs_t, xs_r)): the stacked outputs from step i on.
lax_scan(c, xs_t, xs_r, i) ==
    IF i > Len(xs_r) THEN <<>>
    ELSE LET nc == scan_fn(c, xs_t[i], xs_r[i])
         IN  <<nc>> \o lax_scan(nc, xs_t, xs_r, i + 1)

\* cumulative_rewards[terminals == 1]
mask_select(cum, term) ==
    LET idx == SelectIdx([i \in 1..Len(term) |-> term[i] = 1], 1)
    IN  [k \in 1..Len(idx) |-> cum[idx[k]]]

\* The exception the evaluation of the arguments of jax.lax.scan and its
\* leading-axis check raise, "none" if the scan runs.
scan_exception(term, rew) ==
    IF term.ndim = 0 THEN "IndexError"            \* terminals[0] of a 0-d array
    ELSE IF Len(term.data) # Len(rew) THEN "ValueError"  \* different leading axis sizes
    ELSE "none"

sum_rewards(term, rew) ==
    LET exc == scan_exception(term, rew)
    IN  IF exc # "none" THEN [exception |-> exc, value |-> <<>>]
        ELSE [exception |-> "none",
              value |-> mask_select(
                  lax_scan(0, shift_terminals(term.data), rew, 1), term.data)]

calculate_returns(exp) ==
    sum_rewards(squeeze(all_axis_last(exp.terminals)), experience_one_agent(exp.rewards))

\* Inputs: rewards and terminals of shape (1, T, N), the two T chosen independently.
RewardRow(base, d) == [a \in 1..NumAgents |-> IF a = 1 THEN base ELSE base + d]
RewardArrays ==
    UNION { { <<[i \in 1..T |-> RewardRow(b[i], d)]>> :
                b \in [1..T -> RewardVals], d \in OtherAgentOffsets } : T \in 1..MaxT }
TerminalArrays ==
    UNION { { <<f>> : f \in [1..T -> [1..NumAgents -> {0, 1}]] } : T \in 1..MaxT }
Experiences == [rewards : RewardArrays, terminals : TerminalArrays]

ReturnsIdle ==
    /\ experience = None /\ pc = "idle" /\ rewards = <<>> /\ terminals = Array1(<<>>)
    /\ t = 0 /\ carry = 0 /\ cumulative_rewards = <<>> /\ episode_returns = <<>>
    /\ exception = "none"

InitReturns ==
    /\ prog = "calculate_returns"
    /\ experience \in Experiences
    /\ pc = "start" /\ rewards = <<>> /\ terminals = Array1(<<>>)
    /\ t = 0 /\ carry = 0 /\ cumulative_rewards = <<>> /\ episode_returns = <<>>
    /\ exception = "none"

\* Lines 48-50.
Extract ==
    /\ pc = "start"
    /\ rewards' = experience_one_agent(experience.rewards)
    /\ terminals' = squeeze(all_axis_last(experience.terminals))
    /\ pc' = "scan_init"
    /\ UNCHANGED <<prog, experience, t, carry, cumulative_rewards, episode_returns,
                   exception, saco_vars, vault_vars>>

\* Lines 64-72: the arguments of jax.lax.scan are evaluated and checked.
ScanInit ==
    /\ pc = "scan_init"
    /\ LET exc == scan_exception(terminals, rewards)
       IN  IF exc # "none"
           THEN /\ exception' = exc
                /\ pc' = "raised"
                /\ UNCHANGED <<t, carry, cumulative_rewards>>
           ELSE /\ carry' = 0                     \* jnp.zeros_like(terminals[0])
                /\ t' = 0
                /\ cumulative_rewards' = <<>>
                /\ pc' = "scan"
                /\ UNCHANGED exception
    /\ UNCHANGED <<prog, experience, rewards, terminals, episode_returns,
                   saco_vars, vault_vars>>

\* One step of the scan: timestep t (0-based) is processed.
ScanStep ==
    /\ pc = "scan"
    /\ t < Len(rewards)
    /\ LET nc == scan_fn(carry, shift_terminals(terminals.data)[t + 1], rewards[t + 1])
       IN  /\ carry' = nc
           /\ cumulative_rewards' = Append(cumulative_rewards, nc)
    /\ t' = t + 1
    /\ UNCHANGED <<prog, experience, pc, rewards, terminals, episode_returns, exception,
                   saco_vars, vault_vars>>

\* Lines 74-77.
Select ==
    /\ pc = "scan"
    /\ t = Len(rewards)
    /\ episode_returns' = mask_select(cumulative_rewards, terminals.data)
    /\ pc' = "returned"
    /\ UNCHANGED <<prog, experience, rewards, terminals, t, carry, cumulative_rewards,
                   exception, saco_vars, vault_vars>>

----------------------------------------------------------------------------
\* get_saco

RECURSIVE Flatten(_)
\* reshape(..., -1) of one timestep's actions: the per-agent vectors in row-major order.
Flatten(nested) == IF nested = <<>> THEN <<>> ELSE Head(nested) \o Flatten(Tail(nested))

\* offline_data["actions"].reshape((*shape[:2], -1))
reshape_actions(actions) ==
    [b \in 1..Len(actions) |-> [i \in 1..Len(actions[b]) |-> Flatten(actions[b][i])]]

\* np.concatenate((states, reshaped_actions), axis=-1) of arrays with equal leading axes.
concatenate_last(states, reshaped) ==
    [b \in 1..Len(states) |-> [i \in 1..Len(states[b]) |-> states[b][i] \o reshaped[b][i]]]

RECURSIVE LexLess(_, _)
LexLess(x, y) ==
    IF x = <<>> \/ y = <<>> THEN x = <<>> /\ y # <<>>
    ELSE IF Head(x) # Head(y) THEN Head(x) < Head(y)
    ELSE LexLess(Tail(x), Tail(y))

RECURSIVE SortSet(_)
\* The elements of a set of sub-arrays, in increasing lexicographic order of their flattening.
SortSet(S) ==
    IF S = {} THEN <<>>
    ELSE LET m == CHOOSE x \in S : \A y \in S \ {x} : LexLess(Flatten(x), Flatten(y))
         IN  <<m>> \o SortSet(S \ {m})

\* np.unique(arr, axis=1) of an array of shape (B, T, D): the distinct sub-arrays
\* arr[:, i, :], sorted, stacked along axis 1; the result has shape (B, U, D).
unique_axis1(arr) ==
    LET cols == { [b \in 1..Len(arr) |-> arr[b][i]] : i \in 1..Len(arr[1]) }
        sorted == SortSet(cols)
    IN  [b \in 1..Len(arr) |-> [k \in 1..Len(sorted) |-> sorted[k][b]]]

\* Mutation of get_saco: the longer input is cut to the length of the shorter one.
get_saco_Truncating(data) ==
    LET n == IF Len(data.states[1]) < Len(data.actions[1])
             THEN Len(data.states[1]) ELSE Len(data.actions[1])
        states == <<SubSeq(data.states[1], 1, n)>>
        reshaped == reshape_actions(<<SubSeq(data.actions[1], 1, n)>>)
        unique_vals == unique_axis1(concatenate_last(states, reshaped))
    IN  [exception |-> "none", value |-> <<Len(unique_vals), n>>]

\* Lines 87-98: the outcome of get_saco on the experience read from the vault.
get_saco(data) ==
    LET states == data.states
        num_tot == Len(states[1])                       \* states.shape[1]
        reshaped_actions == reshape_actions(data.actions)
    IN  IF Len(states[1]) # Len(reshaped_actions[1])
        THEN [exception |-> "ValueError", value |-> None]  \* np.concatenate: dimensions differ
        ELSE LET state_pairs == concatenate_last(states, reshaped_actions)
                 unique_vals == unique_axis1(state_pairs)
             IN  [exception |-> "none",
                  value |-> <<Len(unique_vals), num_tot>>]  \* len(unique_vals)/num_tot

\* Inputs: states of shape (1, T, D_s) and actions of shape (1, T, N, D_a).
StateArrays == UNION { { <<f>> : f \in [1..T -> StateVectors] } : T \in 1..MaxT }
ActionArrays ==
    UNION { { <<f>> : f \in [1..T -> [1..NumAgents -> AgentActions]] } : T \in 1..MaxT }

SacoIdle ==
    /\ offline_data = None /\ saco_pc = "idle" /\ saco = None /\ saco_exception = "none"

InitSaco ==
    /\ prog = "get_saco"
    /\ offline_data \in [states : StateArrays, actions : ActionArrays]
    /\ saco_pc = "start" /\ saco = None /\ saco_exception = "none"

\* Lines 80-98.
GetSaco ==
    /\ saco_pc = "start"
    /\ LET r == get_saco(offline_data)
       IN  /\ saco' = r.value
           /\ saco_exception' = r.exception
           /\ saco_pc' = IF r.exception = "none" THEN "returned" ELSE "raised"
    /\ UNCHANGED <<prog, offline_data, returns_vars, vault_vars>>

----------------------------------------------------------------------------
\* analyse_vault

\* Line 122: the UIDs the loop runs over.
resolve_vault_uids(arg, available) == available

\* Mutation of dict_set: the new entry is put in front.
dict_set_Prepend(d, k, v) == <<<<k, v>>>> \o d

\* all_uid_returns[uid] = uid_returns on an insertion-ordered dict.
dict_set(d, k, v) ==
    IF \E i \in 1..Len(d) : d[i][1] = k
    THEN [i \in 1..Len(d) |-> IF d[i][1] = k THEN <<k, v>> ELSE d[i]]
    ELSE Append(d, <<k, v>>)

dict_keys(d) == [i \in 1..Len(d) |-> d[i][1]]

\* Sequences of distinct UIDs: the names of the sub-directories of a vault.
UidLists ==
    UNION { { s \in [1..n -> UIDs] : \A i, j \in 1..n : i # j => s[i] # s[j] } :
            n \in 0..Cardinality(UIDs) }

\* An experience whose agents share the rewards rew and the terminal flags term.
SharedExperience(rew, term) ==
    [rewards |-> <<[i \in 1..Len(rew) |-> RewardRow(rew[i], 0)]>>,
     terminals |-> <<[i \in 1..Len(term) |-> [a \in 1..NumAgents |-> term[i]]]>>]

VaultExperiences ==
    { SharedExperience(<<1, 2, 2>>, <<0, 0, 1>>),
      SharedExperience(<<1, 1, 2>>, <<0, 1, 1>>),
      SharedExperience(<<2, 1>>, <<1, 0>>),
      SharedExperience(<<2>>, <<1>>) }

\* The Optional[List[str]] argument: None, or a list.
NoneArg == [is_none |-> TRUE, value |-> <<>>]
ListArg(l) == [is_none |-> FALSE, value |-> l]

VaultIdle ==
    /\ vault_uids_arg = NoneArg /\ available_uids = <<>> /\ vault_store = None
    /\ vault_uids = <<>> /\ uid_index = 0 /\ all_uid_returns = <<>> /\ vault_pc = "idle"

InitVault ==
    /\ prog = "analyse_vault"
    /\ vault_uids_arg \in {NoneArg} \cup { ListArg(l) : l \in UidLists }
    /\ available_uids \in UidLists
    /\ vault_store \in [UIDs -> VaultExperiences]
    /\ vault_uids = vault_uids_arg.value
    /\ uid_index = 0 /\ all_uid_returns = <<>> /\ vault_pc = "start"

\* Lines 122-124.
AnalyseStart ==
    /\ vault_pc = "start"
    /\ vault_uids' = resolve_vault_uids(vault_uids_arg, available_uids)
    /\ all_uid_returns' = <<>>
    /\ uid_index' = 0
    /\ vault_pc' = "loop"
    /\ UNCHANGED <<prog, vault_uids_arg, available_uids, vault_store, returns_vars, saco_vars>>

\* Lines 126-130: one iteration of the loop over vault_uids.
AnalyseLoop ==
    /\ vault_pc = "loop"
    /\ uid_index < Len(vault_uids)
    /\ LET uid == vault_uids[uid_index + 1]
           exp == vault_store[uid]                     \* vlt.read().experience
           uid_returns == calculate_returns(exp)
       IN  IF uid_returns.exception # "none"
           THEN /\ vault_pc' = "raised"
                /\ UNCHANGED <<all_uid_returns, uid_index>>
           ELSE /\ all_uid_returns' = dict_set(all_uid_returns, uid, uid_returns.value)
                /\ uid_index' = uid_index + 1
                /\ UNCHANGED vault_pc
    /\ UNCHANGED <<prog, vault_uids_arg, available_uids, vault_store, vault_uids,
                   returns_vars, saco_vars>>

\* Lines 132-144: the loop is over and the dict is returned.
AnalyseReturn ==
    /\ vault_pc = "loop"
    /\ uid_index = Len(vault_uids)
    /\ vault_pc' = "returned"
    /\ UNCHANGED <<prog, vault_uids_arg, available_uids, vault_store, vault_uids,
                   uid_index, all_uid_returns, returns_vars, saco_vars>>

----------------------------------------------------------------------------
\* The specification: one run executes one of the three entry points.

Init ==
    \/ InitReturns /\ SacoIdle /\ VaultIdle
    \/ InitSaco /\ ReturnsIdle /\ VaultIdle
    \/ InitVault /\ ReturnsIdle /\ SacoIdle

Next ==
    \/ Extract
    \/ ScanInit
    \/ ScanStep
    \/ Select
    \/ GetSaco
    \/ AnalyseStart
    \/ AnalyseLoop
    \/ AnalyseReturn

Spec == Init /\ [][Next]_vars

----------------------------------------------------------------------------
\* What the claims speak of, stated on the inputs.

IsReturnsRun == prog = "calculate_returns"
Finished == pc \in {"returned", "raised"}
T_rewards == Len(experience.rewards[1])
T_terminals == Len(experience.terminals[1])
EqualLengths == T_rewards = T_terminals

\* Timestep i is terminal: every agent's flag is set there.
AllAgentsTerminated(i) == \A a \in 1..NumAgents : experience.terminals[1][i][a] = 1
SomeAgentTerminated(i) == \E a \in 1..NumAgents : experience.terminals[1][i][a] = 1
TerminalTimes == { i \in 1..T_terminals : AllAgentsTerminated(i) }
FirstAgentReward(i) == experience.rewards[1][i][1]

Max(S) == CHOOSE x \in S : \A y \in S : y <= x
\* The last terminal timestep before i, 0 if there is none.
PrevTerminal(TT, i) == Max({ j \in TT : j < i } \cup {0})
Rank(TT, i) == Cardinality({ j \in TT : j <= i })
RECURSIVE SumOver(_, _, _)
SumOver(f, lo, hi) == IF lo > hi THEN 0 ELSE f[lo] + SumOver(f, lo + 1, hi)

\* out holds, in timestep order, one value per terminal timestep of TT: the sum of
\* rew from the timestep after the previous terminal up to and including it.
IsEpisodeReturns(out, TT, rew) ==
    /\ Len(out) = Cardinality(TT)
    /\ \A i \in TT : out[Rank(TT, i)] = SumOver(rew, PrevTerminal(TT, i) + 1, i)

FirstAgentRewards == [i \in 1..T_rewards |-> FirstAgentReward(i)]

\* C1: for every rewards/terminals pair of equal length T >= 1, calculate_returns
\* outputs one value per terminal timestep, in timestep order, each the sum of the
\* rewards from the timestep after the previous terminal up to and including it.
C1_ReturnsForEveryT ==
    (IsReturnsRun /\ Finished /\ EqualLengths) =>
        /\ pc = "returned"
        /\ IsEpisodeReturns(episode_returns, TerminalTimes, FirstAgentRewards)

\* C2: for all valid inputs the returned sequence has as many elements as there are
\* terminal timesteps.
C2_LengthIsTerminalCount ==
    (IsReturnsRun /\ Finished /\ EqualLengths) =>
        /\ pc = "returned"
        /\ Len(episode_returns) = Cardinality(TerminalTimes)

\* C6: rewards after the last terminal timestep contribute to no output element (the
\* output is that of the batch cut after its last terminal), and with no terminal
\* timestep at all the output is the empty sequence.
C6_TrailingDropped ==
    (IsReturnsRun /\ Finished /\ EqualLengths) =>
        /\ TerminalTimes = {} => (pc = "returned" /\ episode_returns = <<>>)
        /\ TerminalTimes # {} =>
               /\ pc = "returned"
               /\ IsEpisodeReturns(episode_returns, TerminalTimes,
                      [i \in 1..T_rewards |->
                          IF i <= Max(TerminalTimes) THEN FirstAgentReward(i) ELSE 0])

\* C10: a timestep is an episode boundary iff every agent's flag is set there, and the
\* rewards summed are the first agent's: the reduced arrays are those, and the returns
\* of a call that returns are the episode sums cut at exactly those timesteps.
C10_AllAgentsBoundary ==
    IsReturnsRun =>
        /\ pc \in {"scan_init", "scan", "returned", "raised"} =>
               /\ rewards = FirstAgentRewards
               /\ Len(terminals.data) = T_terminals
               /\ \A i \in 1..T_terminals :
                      terminals.data[i] = (IF AllAgentsTerminated(i) THEN 1 ELSE 0)
        /\ pc = "returned" =>
               IsEpisodeReturns(episode_returns, TerminalTimes, FirstAgentRewards)

\* A call has returned on a batch where one timestep has only some agents terminated,
\* a later one all of them, and the other agents' rewards differ from the first's.
C10_Witness ==
    /\ IsReturnsRun /\ pc = "returned"
    /\ \E i, j \in 1..T_terminals :
           /\ i < j
           /\ SomeAgentTerminated(i) /\ ~AllAgentsTerminated(i)
           /\ AllAgentsTerminated(j)
    /\ \E i \in 1..T_rewards : experience.rewards[1][i][NumAgents] # FirstAgentReward(i)
    /\ Len(episode_returns) >= 1

\* The sum of the current episode after k timesteps are processed: the first agent's
\* rewards from the timestep after the last terminal before timestep k, up to k.
EpisodeSoFar(k) ==
    IF k = 0 THEN 0
    ELSE SumOver(FirstAgentRewards, PrevTerminal(TerminalTimes, k) + 1, k)

CarryIsEpisodeSum ==
    (IsReturnsRun /\ pc = "scan") =>
        /\ carry = EpisodeSoFar(t)
        /\ Len(cumulative_rewards) = t
        /\ \A k \in 1..t : cumulative_rewards[k] = EpisodeSoFar(k)

\* Processing timestep t+1 (1-based) resets the carry to its reward exactly when the
\* timestep before it is terminal, never at the first timestep.
ResetRule ==
    (IsReturnsRun /\ pc = "scan" /\ t' = t + 1) =>
        carry' = IF t >= 1 /\ AllAgentsTerminated(t)
                 THEN FirstAgentReward(t + 1)
                 ELSE carry + FirstAgentReward(t + 1)

\* C9: the scan starts from carry 0; after every timestep the carry is the sum of the
\* rewards of the current episode so far, reset to rewards[t] exactly when
\* terminals[t-1] is true, so a terminal timestep's reward counts in the episode it ends.
C9_ScanInvariant == [](CarryIsEpisodeSum) /\ [][ResetRule]_vars

\* The scan has gone past a terminal timestep: the carry was reset and holds less than
\* the sum of all the rewards processed.
C9_Witness ==
    /\ IsReturnsRun /\ pc = "scan" /\ t >= 2
    /\ AllAgentsTerminated(t - 1)
    /\ carry = FirstAgentReward(t)
    /\ carry < SumOver(FirstAgentRewards, 1, t)

----------------------------------------------------------------------------
\* get_saco

SacoRows ==
    { offline_data.states[1][i] \o Flatten(offline_data.actions[1][i]) :
          i \in 1..Len(offline_data.states[1]) }
SacoMismatch == Len(offline_data.states[1]) # Len(offline_data.actions[1])

\* C3: get_saco returns U / T, U the number of distinct state-action rows.
C3_SacoIsUniqueOverT ==
    (prog = "get_saco" /\ saco_pc = "returned") =>
        saco[1] * Len(offline_data.states[1]) = Cardinality(SacoRows) * saco[2]

\* The exceptions that stand for the InvalidInput error.
InvalidInput == {"ValueError", "IndexError"}

\* C4: when the two index-aligned inputs differ in length the call fails with an
\* error and produces no result (calculate_returns and get_saco alike).
C4_MismatchRejected ==
    /\ (IsReturnsRun /\ ~EqualLengths) =>
           /\ pc \in {"start", "scan_init", "raised"}
           /\ episode_returns = <<>>
           /\ pc = "raised" => exception \in InvalidInput
    /\ (prog = "get_saco" /\ SacoMismatch) =>
           /\ saco_pc \in {"start", "raised"}
           /\ saco_pc = "raised" => (saco_exception \in InvalidInput /\ saco = None)

\* calculate_returns has raised on rewards and terminals of different lengths, the
\* terminals with more than one timestep.
C4_Witness ==
    /\ IsReturnsRun /\ ~EqualLengths /\ T_terminals > 1
    /\ pc = "raised" /\ exception = "ValueError" /\ episode_returns = <<>>

----------------------------------------------------------------------------
\* analyse_vault

\* C5: analyse_vault processes exactly the UIDs passed in vault_uids when it is a list,
\* all the available UIDs only when it is None; the keys are the processed UIDs.
C5_ProcessesGivenUids ==
    (prog = "analyse_vault" /\ vault_pc = "returned") =>
        dict_keys(all_uid_returns) =
            (IF vault_uids_arg.is_none THEN available_uids ELSE vault_uids_arg.value)

\* The returns of the experience stored under uid, computed from its arrays.
StoredTerminalTimes(uid) ==
    { i \in 1..Len(vault_store[uid].terminals[1]) :
          \A a \in 1..NumAgents : vault_store[uid].terminals[1][i][a] = 1 }
StoredRewards(uid) ==
    [i \in 1..Len(vault_store[uid].rewards[1]) |-> vault_store[uid].rewards[1][i][1]]

\* C7: the returned mapping has one entry per identifier of the enumerator, in its
\* order, each holding the returns of that identifier's own experience.
C7_MappingFaithful ==
    (prog = "analyse_vault" /\ vault_pc = "returned") =>
        /\ Len(all_uid_returns) = Len(available_uids)
        /\ \A i \in 1..Len(available_uids) :
               /\ all_uid_returns[i][1] = available_uids[i]
               /\ IsEpisodeReturns(all_uid_returns[i][2],
                      StoredTerminalTimes(available_uids[i]),
                      StoredRewards(available_uids[i]))

\* analyse_vault has returned three entries, not all with the same returns.
C7_Witness ==
    /\ prog = "analyse_vault" /\ vault_pc = "returned"
    /\ Len(all_uid_returns) = 3
    /\ all_uid_returns[1][2] # all_uid_returns[2][2]
    /\ all_uid_returns[2][2] # all_uid_returns[3][2]

====
